---- MODULE Spec2Model ----
(***************************************************************************)
(* Model of the geometry and scrolling utilities of the automation core:   *)
(*   src/src/client/core/utils/shared/scroll.ts        (hasScroll,         *)
(*                                                      getScrollableParents)*)
(*   src/src/client/core/utils/shared/values/axis-values.ts  (AxisValues)   *)
(* The DOM, the computed styles and the browser flags are the state the     *)
(* functions read; every function is translated statement by statement.     *)
(* The Automation lifecycle declared in src/src/shared/actions/types.d.ts   *)
(* follows the specification, and the configuration object follows its      *)
(* tests; both are marked where they are defined.                           *)
(***************************************************************************)
EXTENDS Integers, Sequences, FiniteSets, TLC

VARIABLES
    browser,    \* adapter.browser: [isIE, isChrome, isFirefox]
    dom,        \* node id -> layout and computed style of the node
    frames,     \* document id -> [inIframe, iframe]: how the document is embedded
    ret,        \* the last call made and the value it returned
    heap,       \* the objects the geometry code works on, by identity
    log,        \* the calls of AxisValues made so far, each with the heap it found
    config,     \* the configuration object: file values, options, overridden names
    automation, \* the Automation instance: its lifecycle state and what it did
    page        \* what the running automation finds and moves: target, scroll offsets

vars == <<browser, dom, frames, ret, heap, log, config, automation, page>>

(***************************************************************************)
(* Bounds of the model.                                                    *)
(***************************************************************************)
\* scrollHeight, clientHeight, scrollWidth, clientWidth range over 0..MaxExtent
MaxExtent == 1
\* getBoundingClientRect().top of html and body range over 0..MaxTop
MaxTop == 1
\* ancestors between body and the iframe element in the host document
OuterDepth == 1
\* ancestors between body and the innermost element in the framed document
InnerDepth == 2
\* coordinates handed to the geometry code range over 0..MaxNum
MaxNum == 3
\* calls of AxisValues in one run
MaxCalls == 2
\* bits of the significand of a number (53 in an IEEE 754 double)
Precision == 2
\* clientHeight and scrollHeight of a scroll container of the lifecycle page
ViewHeight == 2
ContentHeight == 4

(***************************************************************************)
(* The DOM.  A node id is <<d, i>>: document d, depth i below the root, so  *)
(* <<d, 0>> is the document element and the parent of <<d, i>> is           *)
(* <<d, i - 1>>.                                                            *)
(***************************************************************************)
NoNode == <<>>

NoCall == [fn |-> "none", el |-> NoNode, value |-> FALSE]

\* no configuration object, no Automation instance and no page under automation
NoConfig == [phase |-> "none"]
NoAutomation == [state |-> "none"]
NoPage == <<>>

Idle == config = NoConfig /\ automation = NoAutomation /\ page = NoPage

Styles == {"visible", "hidden", "auto", "scroll"}

\* the characters of a computed overflow keyword, as the regular expression sees them
Spell(value) ==
    CASE value = "visible" -> <<"v", "i", "s", "i", "b", "l", "e">>
      [] value = "hidden"  -> <<"h", "i", "d", "d", "e", "n">>
      [] value = "auto"    -> <<"a", "u", "t", "o">>
      [] value = "scroll"  -> <<"s", "c", "r", "o", "l", "l">>
      [] OTHER             -> <<>>

\* the realistic (scroll, client) pairs of one axis: the scroll extent of an
\* element is never smaller than its client extent
ExtentPairs == {p \in (0..MaxExtent) \X (0..MaxExtent) : p[1] >= p[2]}

Node(tag, ox, oy, h, w, top) ==
    [tag |-> tag, overflowX |-> ox, overflowY |-> oy,
     scrollHeight |-> h[1], clientHeight |-> h[2],
     scrollWidth |-> w[1], clientWidth |-> w[2], top |-> top]

PlainNode(tag) == Node(tag, "visible", "visible", <<MaxExtent, MaxExtent>>, <<MaxExtent, MaxExtent>>, 0)

(***************************************************************************)
(* Platform adapter (adapter/index, not part of the sources given): the    *)
(* contract of section 6 of the specification.                             *)
(***************************************************************************)
styleGet(el, property) == dom[el][property]

isBodyElement(el) == dom[el].tag = "body"

isHtmlElement(el) == dom[el].tag = "html"

\* dom.findDocument(el).documentElement
documentElementOf(el) == <<el[1], 0>>

\* el.getElementsByTagName('body')[0]: the first body below el, NoNode if none
firstBodyOf(el) ==
    LET bodies == {n \in DOMAIN dom : n[1] = el[1] /\ n[2] > el[2] /\ dom[n].tag = "body"}
    IN  IF bodies = {} THEN NoNode
        ELSE CHOOSE b \in bodies : \A c \in bodies : b[2] <= c[2]

\* dom.getParents(el): the ancestors inside el's own document, nearest first
getParents(el) == [k \in 1..el[2] |-> <<el[1], el[2] - k>>]

isElementInIframe(el) == frames[el[1]].inIframe

getIframeByElement(el) == frames[el[1]].iframe

(***************************************************************************)
(* scroll.ts                                                               *)
(***************************************************************************)
ToLowerCase(c) ==
    CASE c = "A" -> "a" [] c = "U" -> "u" [] c = "T" -> "t" [] c = "O" -> "o"
      [] c = "S" -> "s" [] c = "C" -> "c" [] c = "R" -> "r" [] c = "L" -> "l"
      [] OTHER -> c

\* /auto|scroll/i.test(value): an unanchored, case-insensitive search
SCROLLABLE_OVERFLOW_STYLE_RE(value) ==
    LET s == Spell(value)
    IN  \E alt \in {<<"a", "u", "t", "o">>, <<"s", "c", "r", "o", "l", "l">>} :
            \E i \in 1..Len(s) :
                /\ i + Len(alt) - 1 <= Len(s)
                /\ \A k \in 1..Len(alt) : ToLowerCase(s[i + k - 1]) = alt[k]

DEFAULT_IE_SCROLLABLE_OVERFLOW_STYLE_VALUE == "visible"

\* getScrollable without the IE11 / MS Edge correction
getScrollable_NoIECorrection(el) ==
    [x |-> SCROLLABLE_OVERFLOW_STYLE_RE(styleGet(el, "overflowX")),
     y |-> SCROLLABLE_OVERFLOW_STYLE_RE(styleGet(el, "overflowY"))]

\* getScrollable whose IE correction does not look at the other axis's keyword
getScrollable_AnyKeyword(el) ==
    LET scrollableHorizontally0 == SCROLLABLE_OVERFLOW_STYLE_RE(styleGet(el, "overflowX"))
        scrollableVertically0   == SCROLLABLE_OVERFLOW_STYLE_RE(styleGet(el, "overflowY"))
    IN  IF browser.isIE
        THEN [x |-> scrollableHorizontally0 \/ scrollableVertically0,
              y |-> scrollableVertically0 \/ scrollableHorizontally0]
        ELSE [x |-> scrollableHorizontally0, y |-> scrollableVertically0]

getScrollable(el) ==
    LET overflowX == styleGet(el, "overflowX")
        overflowY == styleGet(el, "overflowY")
        scrollableHorizontally0 == SCROLLABLE_OVERFLOW_STYLE_RE(overflowX)
        scrollableVertically0   == SCROLLABLE_OVERFLOW_STYLE_RE(overflowY)
        scrollableHorizontally ==
            IF browser.isIE
            THEN scrollableHorizontally0 \/
                 (scrollableVertically0 /\ overflowX = DEFAULT_IE_SCROLLABLE_OVERFLOW_STYLE_VALUE)
            ELSE scrollableHorizontally0
        scrollableVertically ==
            IF browser.isIE
            THEN scrollableVertically0 \/
                 (scrollableHorizontally /\ overflowY = DEFAULT_IE_SCROLLABLE_OVERFLOW_STYLE_VALUE)
            ELSE scrollableVertically0
    IN  [x |-> scrollableHorizontally, y |-> scrollableVertically]

\* the body scroll height without the Chrome / Firefox correction
bodyScrollHeight_Raw(el) == dom[el].scrollHeight

\* the body scroll height hasBodyScroll compares with the root's scrollHeight
bodyScrollHeight(el) ==
    LET documentElement == documentElementOf(el)
        bodyTop     == dom[el].top
        documentTop == dom[documentElement].top
    IN  IF browser.isChrome \/ browser.isFirefox
        THEN dom[el].scrollHeight - documentTop + bodyTop
        ELSE dom[el].scrollHeight

\* hasBodyScroll that decides on the scroll heights alone
hasBodyScroll_NoStyleCheck(el) ==
    bodyScrollHeight(el) > dom[documentElementOf(el)].scrollHeight

hasBodyScroll(el) ==
    LET overflowX == styleGet(el, "overflowX")
        overflowY == styleGet(el, "overflowY")
        scrollableHorizontally == SCROLLABLE_OVERFLOW_STYLE_RE(overflowX)
        scrollableVertically   == SCROLLABLE_OVERFLOW_STYLE_RE(overflowY)
        documentElement == documentElementOf(el)
    IN  /\ scrollableHorizontally \/ scrollableVertically
        /\ bodyScrollHeight(el) > dom[documentElement].scrollHeight

Min(a, b) == IF a < b THEN a ELSE b

\* hasHTMLElementScroll without the T303226 check of overflow: hidden
hasHTMLElementScroll_NoHiddenCheck(el) ==
    LET hasHorizontalScroll == dom[el].scrollHeight > dom[el].clientHeight
        hasVerticalScroll   == dom[el].scrollWidth > dom[el].clientWidth
        body == firstBodyOf(el)
        clientWidth  == Min(dom[el].clientWidth, dom[body].clientWidth)
        clientHeight == Min(dom[el].clientHeight, dom[body].clientHeight)
    IN  IF hasHorizontalScroll \/ hasVerticalScroll THEN TRUE
        ELSE IF body = NoNode THEN FALSE
        ELSE IF hasBodyScroll(body) THEN FALSE
        ELSE dom[body].scrollHeight > clientHeight \/ dom[body].scrollWidth > clientWidth

\* hasHTMLElementScroll without the T174562 check of the body's own scroll
hasHTMLElementScroll_NoBodyCheck(el) ==
    LET overflowX == styleGet(el, "overflowX")
        overflowY == styleGet(el, "overflowY")
        hasHorizontalScroll == dom[el].scrollHeight > dom[el].clientHeight
        hasVerticalScroll   == dom[el].scrollWidth > dom[el].clientWidth
        body == firstBodyOf(el)
        clientWidth  == Min(dom[el].clientWidth, dom[body].clientWidth)
        clientHeight == Min(dom[el].clientHeight, dom[body].clientHeight)
    IN  IF overflowX = "hidden" /\ overflowY = "hidden" THEN FALSE
        ELSE IF hasHorizontalScroll \/ hasVerticalScroll THEN TRUE
        ELSE IF body = NoNode THEN FALSE
        ELSE dom[body].scrollHeight > clientHeight \/ dom[body].scrollWidth > clientWidth

\* hasHTMLElementScroll that lets overflow: hidden of one axis switch that
\* axis off
hasHTMLElementScroll_PerAxisHidden(el) ==
    LET overflowX == styleGet(el, "overflowX")
        overflowY == styleGet(el, "overflowY")
        hasHorizontalScroll == overflowY # "hidden" /\ dom[el].scrollHeight > dom[el].clientHeight
        hasVerticalScroll   == overflowX # "hidden" /\ dom[el].scrollWidth > dom[el].clientWidth
        body == firstBodyOf(el)
        clientWidth  == Min(dom[el].clientWidth, dom[body].clientWidth)
        clientHeight == Min(dom[el].clientHeight, dom[body].clientHeight)
    IN  IF overflowX = "hidden" /\ overflowY = "hidden" THEN FALSE
        ELSE IF hasHorizontalScroll \/ hasVerticalScroll THEN TRUE
        ELSE IF body = NoNode THEN FALSE
        ELSE IF hasBodyScroll(body) THEN FALSE
        ELSE dom[body].scrollHeight > clientHeight \/ dom[body].scrollWidth > clientWidth

hasHTMLElementScroll(el) ==
    LET overflowX == styleGet(el, "overflowX")
        overflowY == styleGet(el, "overflowY")
        hasHorizontalScroll == dom[el].scrollHeight > dom[el].clientHeight
        hasVerticalScroll   == dom[el].scrollWidth > dom[el].clientWidth
        body == firstBodyOf(el)
        clientWidth  == Min(dom[el].clientWidth, dom[body].clientWidth)
        clientHeight == Min(dom[el].clientHeight, dom[body].clientHeight)
    IN  IF overflowX = "hidden" /\ overflowY = "hidden" THEN FALSE
        ELSE IF hasHorizontalScroll \/ hasVerticalScroll THEN TRUE
        ELSE IF body = NoNode THEN FALSE
        ELSE IF hasBodyScroll(body) THEN FALSE
        ELSE dom[body].scrollHeight > clientHeight \/ dom[body].scrollWidth > clientWidth

hasScroll(el) ==
    IF isBodyElement(el) THEN hasBodyScroll(el)
    ELSE IF isHtmlElement(el) THEN hasHTMLElementScroll(el)
    ELSE LET scrollable == getScrollable(el)
             hasVerticalScroll   == scrollable.y /\ dom[el].scrollHeight > dom[el].clientHeight
             hasHorizontalScroll == scrollable.x /\ dom[el].scrollWidth > dom[el].clientWidth
         IN  IF ~scrollable.x /\ ~scrollable.y THEN FALSE
             ELSE hasHorizontalScroll \/ hasVerticalScroll

\* Array.prototype.filter with hasScroll as the callback, from index i on:
\* the elements the callback accepts, in index order
RECURSIVE arrayFilterFrom(_, _)
arrayFilterFrom(array, i) ==
    IF i > Len(array) THEN <<>>
    ELSE (IF hasScroll(array[i]) THEN <<array[i]>> ELSE <<>>) \o arrayFilterFrom(array, i + 1)

\* a filter that keeps every element
arrayFilter_KeepAll(array) == array

\* a filter that yields the accepted elements last first
arrayFilter_Reversed(array) ==
    LET kept == arrayFilterFrom(array, 1)
    IN  [i \in 1..Len(kept) |-> kept[Len(kept) + 1 - i]]

\* adapter.nativeMethods.arrayFilter.call(array, hasScroll)
arrayFilter(array) == arrayFilterFrom(array, 1)

\* Array.prototype.concat: a new array; neither operand is changed
arrayConcat(array, other) == array \o other

\* getScrollableParents that gives up when the iframe element is not found
getScrollableParents_NeedsIframe(element) ==
    IF isElementInIframe(element) /\ getIframeByElement(element) = NoNode THEN <<>>
    ELSE arrayFilter(getParents(element))

getScrollableParents(element) ==
    LET parentsArray == getParents(element)
        iframe == getIframeByElement(element)
        \* the value of the expression statement parentsArray.concat(iFrameParents),
        \* which the function does not keep
        concatenated ==
            IF isElementInIframe(element) /\ iframe # NoNode
            THEN arrayConcat(parentsArray, getParents(iframe))
            ELSE parentsArray
    IN  arrayFilter(parentsArray)

(***************************************************************************)
(* Operations: a call of hasScroll on a node of the current DOM.           *)
(***************************************************************************)
CallHasScroll(el) ==
    /\ ret = NoCall
    /\ ret' = [fn |-> "hasScroll", el |-> el, value |-> hasScroll(el)]
    /\ UNCHANGED <<browser, dom, frames, heap, log, config, automation, page>>

CallGetScrollableParents(element) ==
    /\ ret = NoCall
    /\ ret' = [fn |-> "getScrollableParents", el |-> element,
               value |-> getScrollableParents(element)]
    /\ UNCHANGED <<browser, dom, frames, heap, log, config, automation, page>>

Browsers == [isIE : BOOLEAN, isChrome : BOOLEAN, isFirefox : BOOLEAN]

TopFrame == [d \in {0} |-> [inIframe |-> FALSE, iframe |-> NoNode]]

Html == <<0, 0>>
Body == <<0, 1>>
Div  == <<0, 2>>

\* an ordinary element of any style and extents inside a plain document
InitElement ==
    /\ browser \in Browsers
    /\ \E ox \in Styles, oy \in Styles, h \in ExtentPairs, w \in ExtentPairs :
          dom = (Html :> PlainNode("html")) @@ (Body :> PlainNode("body")) @@
                (Div :> Node("div", ox, oy, h, w, 0))
    /\ frames = TopFrame
    /\ ret = NoCall
    /\ heap = <<>> /\ log = <<>>
    /\ Idle

NextElement == CallHasScroll(Div)

SpecElement == InitElement /\ [][NextElement]_vars

\* a body of any style, scroll height and offset in a document of any scroll
\* height and offset
InitBody ==
    /\ browser \in Browsers
    /\ \E ox \in Styles, oy \in Styles, h \in ExtentPairs, rh \in ExtentPairs,
          bodyTop \in 0..MaxTop, documentTop \in 0..MaxTop :
          dom = (Html :> Node("html", "visible", "visible", rh, <<MaxExtent, MaxExtent>>, documentTop)) @@
                (Body :> Node("body", ox, oy, h, <<MaxExtent, MaxExtent>>, bodyTop))
    /\ frames = TopFrame
    /\ ret = NoCall
    /\ heap = <<>> /\ log = <<>>
    /\ Idle

NextBody == CallHasScroll(Body)

SpecBody == InitBody /\ [][NextBody]_vars

\* the flag combinations one user agent produces: at most one family flag is set
UserAgents == {b \in Browsers : Cardinality({f \in {"isIE", "isChrome", "isFirefox"} : b[f]}) <= 1}

\* the overflow keywords of the document element and of its body in InitHtml
RootStyles == {"visible", "hidden", "scroll"}

\* a document element of any style and extents, without a body or with a body
\* of any style, extents and offset
InitHtml ==
    /\ browser \in UserAgents
    /\ \E ox \in RootStyles, oy \in RootStyles, h \in ExtentPairs, w \in ExtentPairs :
          \/ dom = (Html :> Node("html", ox, oy, h, w, 0))
          \/ \E box \in RootStyles, boy \in RootStyles, bh \in ExtentPairs, bw \in ExtentPairs,
                bodyTop \in 0..MaxTop :
                dom = (Html :> Node("html", ox, oy, h, w, 0)) @@
                      (Body :> Node("body", box, boy, bh, bw, bodyTop))
    /\ frames = TopFrame
    /\ ret = NoCall
    /\ heap = <<>> /\ log = <<>>
    /\ Idle

NextHtml == CallHasScroll(Html)

SpecHtml == InitHtml /\ [][NextHtml]_vars

(***************************************************************************)
(* axis-values.ts.  An object of the heap is [cls, fields]: fields is the   *)
(* record of its own properties, so that 'left' in a is                     *)
(* "left" \in DOMAIN a.fields.                                              *)
(***************************************************************************)
RECURSIVE Pow2(_)
Pow2(n) == IF n = 0 THEN 1 ELSE 2 * Pow2(n - 1)

Abs(n) == IF n < 0 THEN -n ELSE n

\* the binary exponent at which |n| fits the significand
RECURSIVE ExponentOf(_, _)
ExponentOf(n, e) == IF n \div Pow2(e) < Pow2(Precision) THEN e ELSE ExponentOf(n, e + 1)

\* the number a JavaScript arithmetic operation stores for the exact result n:
\* the nearest number with a significand of Precision bits, ties to even
RoundNumber(n) ==
    LET e    == ExponentOf(Abs(n), 0)
        q    == Abs(n) \div Pow2(e)
        r    == Abs(n) % Pow2(e)
        up   == 2 * r > Pow2(e) \/ (2 * r = Pow2(e) /\ q % 2 = 1)
        m    == (IF up THEN q + 1 ELSE q) * Pow2(e)
    IN  IF n < 0 THEN -m ELSE m

\* new AxisValues(x, y)
NewAxisValues(x, y) == [cls |-> "AxisValues", fields |-> [x |-> x, y |-> y]]

\* create that looks for 'right' before 'left'
create_RightFirst(a) ==
    IF "right" \in DOMAIN a.fields THEN NewAxisValues(a.fields.right, a.fields.bottom)
    ELSE IF "left" \in DOMAIN a.fields THEN NewAxisValues(a.fields.left, a.fields.top)
    ELSE NewAxisValues(a.fields.x, a.fields.y)

\* create that measures right-bottom values from the opposite edge
create_Translating(a) ==
    IF "left" \in DOMAIN a.fields THEN NewAxisValues(a.fields.left, a.fields.top)
    ELSE IF "right" \in DOMAIN a.fields THEN NewAxisValues(-a.fields.right, -a.fields.bottom)
    ELSE NewAxisValues(a.fields.x, a.fields.y)

\* AxisValues.create(a): the new instance
create(a) ==
    IF "left" \in DOMAIN a.fields THEN NewAxisValues(a.fields.left, a.fields.top)
    ELSE IF "right" \in DOMAIN a.fields THEN NewAxisValues(a.fields.right, a.fields.bottom)
    ELSE NewAxisValues(a.fields.x, a.fields.y)

\* add that leaves the receiver alone and allocates the sum as a new vector
add_Copy(h, this, p) ==
    Append(h, NewAxisValues(RoundNumber(h[this].fields.x + h[p].fields.x),
                            RoundNumber(h[this].fields.y + h[p].fields.y)))

\* this.add(p): the heap after this.x += p.x; this.y += p.y
add(h, this, p) ==
    LET h1 == [h EXCEPT ![this].fields.x = RoundNumber(h[this].fields.x + h[p].fields.x)]
    IN  [h1 EXCEPT ![this].fields.y = RoundNumber(h1[this].fields.y + h1[p].fields.y)]

\* sub that also takes the difference out of the operand
sub_WritesOperand(h, this, p) ==
    LET h1 == [h EXCEPT ![this].fields.x = RoundNumber(h[this].fields.x - h[p].fields.x)]
        h2 == [h1 EXCEPT ![this].fields.y = RoundNumber(h1[this].fields.y - h1[p].fields.y)]
    IN  [h2 EXCEPT ![p].fields.x = h2[this].fields.x]

\* sub that updates x only
sub_OnlyX(h, this, p) ==
    [h EXCEPT ![this].fields.x = RoundNumber(h[this].fields.x - h[p].fields.x)]

\* this.sub(p): the heap after this.x -= p.x; this.y -= p.y
sub(h, this, p) ==
    LET h1 == [h EXCEPT ![this].fields.x = RoundNumber(h[this].fields.x - h[p].fields.x)]
    IN  [h1 EXCEPT ![this].fields.y = RoundNumber(h1[this].fields.y - h1[p].fields.y)]

Entry(op, this, arg, result) ==
    [op |-> op, this |-> this, arg |-> arg, before |-> heap, result |-> result]

\* v = AxisValues.create(heap[a])
Create(a) ==
    /\ Len(log) < MaxCalls
    /\ heap' = Append(heap, create(heap[a]))
    /\ log' = Append(log, Entry("create", 0, a, Len(heap) + 1))
    /\ UNCHANGED <<browser, dom, frames, ret, config, automation, page>>

IsNumericVector(o) == o.cls = "AxisValues"

HasXY(o) == {"x", "y"} \subseteq DOMAIN o.fields

\* this.add(p), which returns this
Add(this, p) ==
    /\ Len(log) < MaxCalls
    /\ IsNumericVector(heap[this]) /\ HasXY(heap[p])
    /\ heap' = add(heap, this, p)
    /\ log' = Append(log, Entry("add", this, p, this))
    /\ UNCHANGED <<browser, dom, frames, ret, config, automation, page>>

\* this.sub(p), which returns this
Sub(this, p) ==
    /\ Len(log) < MaxCalls
    /\ IsNumericVector(heap[this]) /\ HasXY(heap[p])
    /\ heap' = sub(heap, this, p)
    /\ log' = Append(log, Entry("sub", this, p, this))
    /\ UNCHANGED <<browser, dom, frames, ret, config, automation, page>>

NoDom ==
    /\ browser = [isIE |-> FALSE, isChrome |-> FALSE, isFirefox |-> FALSE]
    /\ dom = <<>> /\ frames = <<>> /\ ret = NoCall

Nums == 0..MaxNum

PlainObject(fields) == [cls |-> "Object", fields |-> fields]

\* the three shapes of AxisValues.create's parameter
PureShapes ==
    {PlainObject([x |-> a, y |-> b]) : a \in Nums, b \in Nums} \cup
    {PlainObject([left |-> a, top |-> b]) : a \in Nums, b \in Nums} \cup
    {PlainObject([right |-> a, bottom |-> b]) : a \in Nums, b \in Nums}

\* objects that carry the fields of two shapes at once
MixedShapes ==
    {PlainObject([left |-> a, top |-> b, x |-> c, y |-> d]) :
        a \in Nums, b \in Nums, c \in Nums, d \in Nums} \cup
    {PlainObject([left |-> a, top |-> b, right |-> c, bottom |-> d]) :
        a \in Nums, b \in Nums, c \in Nums, d \in Nums} \cup
    {PlainObject([right |-> a, bottom |-> b, x |-> c, y |-> d]) :
        a \in Nums, b \in Nums, c \in Nums, d \in Nums}

\* one object of any shape, handed to AxisValues.create
InitCreate ==
    /\ NoDom
    /\ \E a \in PureShapes \cup MixedShapes : heap = <<a>>
    /\ log = <<>>
    /\ Idle

NextCreate == Len(log) = 0 /\ Create(1)

SpecCreate == InitCreate /\ [][NextCreate]_vars

\* a vector new AxisValues(x, y) and an operand {x, y}
InitAxis ==
    /\ NoDom
    /\ \E x \in Nums, y \in Nums, px \in Nums, py \in Nums :
          heap = <<NewAxisValues(x, y), PlainObject([x |-> px, y |-> py])>>
    /\ log = <<>>
    /\ Idle

NextAxis ==
    \/ \E a \in DOMAIN heap : Create(a)
    \/ \E this \in DOMAIN heap, p \in DOMAIN heap : Add(this, p)
    \/ \E this \in DOMAIN heap, p \in DOMAIN heap : Sub(this, p)

SpecAxis == InitAxis /\ [][NextAxis]_vars


(***************************************************************************)
(* Properties of hasScroll.                                                *)
(***************************************************************************)
\* the keywords that permit scrolling, as the specification lists them
Permits(keyword) == keyword \in {"auto", "scroll"}

Called(el) == ret.fn = "hasScroll" /\ ret.el = el

OverflowsY(el) == dom[el].scrollHeight > dom[el].clientHeight
OverflowsX(el) == dom[el].scrollWidth > dom[el].clientWidth

\* C2: an ordinary element whose one axis permits scroll and whose other axis
\* is 'visible', overflowing only on the 'visible' axis, is reported scrollable
\* exactly when the isIE flag is set (both ways round)
C2_IEVisibleAxisQuirk ==
    Called(Div) =>
        /\ (/\ Permits(dom[Div].overflowX) /\ dom[Div].overflowY = "visible"
            /\ OverflowsY(Div) /\ ~OverflowsX(Div)) => (ret.value = browser.isIE)
        /\ (/\ Permits(dom[Div].overflowY) /\ dom[Div].overflowX = "visible"
            /\ OverflowsX(Div) /\ ~OverflowsY(Div)) => (ret.value = browser.isIE)

C2_Witness ==
    /\ Called(Div) /\ browser.isIE /\ ret.value
    /\ dom[Div].overflowX = "auto" /\ dom[Div].overflowY = "visible"
    /\ OverflowsY(Div) /\ ~OverflowsX(Div)

\* C3: with overflow-x 'auto' and overflow-y 'hidden' the x axis permits scroll
\* and the y axis does not under every flag combination, and hasScroll returns
\* true exactly when scrollWidth > clientWidth
C3_NoCrossAxisLeak ==
    (Called(Div) /\ dom[Div].overflowX = "auto" /\ dom[Div].overflowY = "hidden") =>
        /\ getScrollable(Div) = [x |-> TRUE, y |-> FALSE]
        /\ ret.value = OverflowsX(Div)

C3_Witness ==
    /\ Called(Div) /\ dom[Div].overflowX = "auto" /\ dom[Div].overflowY = "hidden"
    /\ browser.isIE /\ browser.isChrome /\ browser.isFirefox
    /\ OverflowsY(Div) /\ ~OverflowsX(Div) /\ ~ret.value

\* C4: the document element with both overflow axes 'hidden' is never reported
\* scrollable, whatever its extents and its body
C4_HiddenRootNeverScrolls ==
    (Called(Html) /\ dom[Html].overflowX = "hidden" /\ dom[Html].overflowY = "hidden")
        => ~ret.value

C4_Witness ==
    /\ Called(Html) /\ dom[Html].overflowX = "hidden" /\ dom[Html].overflowY = "hidden"
    /\ OverflowsY(Html) /\ OverflowsX(Html) /\ Body \in DOMAIN dom /\ OverflowsY(Body)
    /\ ~ret.value

\* the body-scroll rule of the specification, section 4.2 case 1, with the
\* offsets the code applies on Chrome and Firefox
BodyRule ==
    /\ Permits(dom[Body].overflowX) \/ Permits(dom[Body].overflowY)
    /\ (IF browser.isChrome \/ browser.isFirefox
        THEN dom[Body].scrollHeight - dom[Html].top + dom[Body].top
        ELSE dom[Body].scrollHeight) > dom[Html].scrollHeight

FallbackCase ==
    /\ Called(Html) /\ Body \in DOMAIN dom
    /\ ~(dom[Html].overflowX = "hidden" /\ dom[Html].overflowY = "hidden")
    /\ ~OverflowsY(Html) /\ ~OverflowsX(Html)

\* C5: on the fallback path of the document element, a body satisfying the
\* body-scroll rule makes hasScroll(html) false; otherwise hasScroll(html)
\* compares the body's scroll extents with the smaller client extents of root
\* and body; root and body are never both reported scrollable on this path
C5_RootFallsBackToBody ==
    FallbackCase =>
        /\ ret.value =
              (IF BodyRule THEN FALSE
               ELSE \/ dom[Body].scrollHeight > Min(dom[Html].clientHeight, dom[Body].clientHeight)
                    \/ dom[Body].scrollWidth > Min(dom[Html].clientWidth, dom[Body].clientWidth))
        /\ ~(ret.value /\ hasScroll(Body))

C5_Witness ==
    /\ FallbackCase /\ BodyRule /\ ~ret.value
    /\ dom[Body].scrollHeight > Min(dom[Html].clientHeight, dom[Body].clientHeight)

\* C6 as stated: on Chrome and Firefox the value compared with the root's
\* scrollHeight is body.scrollHeight minus the root's top offset, elsewhere the
\* raw body.scrollHeight; the body is scrollable only if that value is greater
C6_ComparedValueAsStated ==
    (Called(Body) /\ ret.value) =>
        (IF browser.isChrome \/ browser.isFirefox
         THEN dom[Body].scrollHeight - dom[Html].top
         ELSE dom[Body].scrollHeight) > dom[Html].scrollHeight

\* C6 amended: on Chrome and Firefox the value compared is body.scrollHeight
\* minus the root's top offset plus the body's own top offset, elsewhere the raw
\* body.scrollHeight; the body is scrollable only if that value is strictly
\* greater than the root's scrollHeight
C6_ComparedValue ==
    (Called(Body) /\ ret.value) =>
        (IF browser.isChrome \/ browser.isFirefox
         THEN dom[Body].scrollHeight - dom[Html].top + dom[Body].top
         ELSE dom[Body].scrollHeight) > dom[Html].scrollHeight

C6_Witness ==
    /\ Called(Body) /\ ret.value /\ browser.isChrome
    /\ dom[Body].top > 0 /\ dom[Body].scrollHeight = dom[Html].scrollHeight

(***************************************************************************)
(* A host document whose body holds OuterDepth nested elements and an       *)
(* iframe element, and the framed document whose body holds InnerDepth      *)
(* nested elements and the innermost element.                               *)
(***************************************************************************)
IframeNode == <<0, OuterDepth + 2>>
Innermost  == <<1, InnerDepth + 2>>

PageNodes == ({0} \X (0..OuterDepth + 2)) \cup ({1} \X (0..InnerDepth + 2))

\* the layouts of an ancestor element: scrolling on both axes; overflowing but
\* clipped; permitted on x, 'visible' and overflowing on y
DivLayouts ==
    { Node("div", "auto", "auto", <<MaxExtent, 0>>, <<MaxExtent, 0>>, 0),
      Node("div", "hidden", "hidden", <<MaxExtent, 0>>, <<MaxExtent, 0>>, 0),
      Node("div", "scroll", "visible", <<MaxExtent, 0>>, <<MaxExtent, MaxExtent>>, 0) }

\* the layouts of a document element: nothing to scroll; overflowing
HtmlLayouts ==
    { Node("html", "visible", "visible", <<0, 0>>, <<0, 0>>, 0),
      Node("html", "visible", "visible", <<MaxExtent, 0>>, <<MaxExtent, MaxExtent>>, 0) }

\* the layouts of a body: plain; permitting scroll
BodyLayouts ==
    { PlainNode("body"),
      Node("body", "auto", "auto", <<MaxExtent, MaxExtent>>, <<MaxExtent, MaxExtent>>, 0) }

DivNodes == {n \in PageNodes : n[2] >= 2} \ {IframeNode, Innermost}

InitParents ==
    /\ browser \in UserAgents
    /\ \E html \in [{0, 1} -> HtmlLayouts], body \in [{0, 1} -> BodyLayouts],
          div \in [DivNodes -> DivLayouts] :
          dom = [n \in PageNodes |->
                    IF n[2] = 0 THEN html[n[1]]
                    ELSE IF n[2] = 1 THEN body[n[1]]
                    ELSE IF n = IframeNode THEN PlainNode("iframe")
                    ELSE IF n = Innermost THEN PlainNode("div")
                    ELSE div[n]]
    /\ \E found \in {IframeNode, NoNode} :
          frames = (0 :> [inIframe |-> FALSE, iframe |-> NoNode]) @@
                   (1 :> [inIframe |-> TRUE, iframe |-> found])
    /\ ret = NoCall
    /\ heap = <<>> /\ log = <<>>
    /\ Idle

NextParents == \E element \in DOMAIN dom : CallGetScrollableParents(element)

SpecParents == InitParents /\ [][NextParents]_vars

\* the degenerate layouts: a document that is a lone document element of any
\* style and extents, without a body; and the page above with a framed
\* document whose iframe element getIframeByElement does not find
InitDegenerate ==
    \/ /\ browser \in UserAgents
       /\ \E ox \in Styles, oy \in Styles, h \in ExtentPairs, w \in ExtentPairs :
             dom = (Html :> Node("html", ox, oy, h, w, 0))
       /\ frames = TopFrame
       /\ ret = NoCall
       /\ heap = <<>> /\ log = <<>>
       /\ Idle
    \/ /\ InitParents
       /\ getIframeByElement(Innermost) = NoNode

NextDegenerate ==
    \/ CallHasScroll(Html)
    \/ \E element \in DOMAIN dom : CallGetScrollableParents(element)

SpecDegenerate == InitDegenerate /\ [][NextDegenerate]_vars

\* a page read through an adapter whose getParents walks out of the framed
\* document through the iframe element: the framed elements lie below the
\* iframe element on one chain, so that the ancestors of the iframe element
\* are on the element's own chain as well as on the iframe element's
FramedNodes == {0} \X (OuterDepth + 3 .. OuterDepth + InnerDepth + 2)

OverlapNodes == ({0} \X (0..OuterDepth + 2)) \cup FramedNodes

InitOverlap ==
    /\ browser \in UserAgents
    /\ \E html \in HtmlLayouts, body \in BodyLayouts,
          div \in [OverlapNodes \ {Html, Body, IframeNode} -> DivLayouts] :
          dom = [n \in OverlapNodes |->
                    IF n = Html THEN html
                    ELSE IF n = Body THEN body
                    ELSE IF n = IframeNode THEN PlainNode("iframe")
                    ELSE div[n]]
    /\ frames = (0 :> [inIframe |-> TRUE, iframe |-> IframeNode])
    /\ ret = NoCall
    /\ heap = <<>> /\ log = <<>>
    /\ Idle

NextOverlap == \E element \in FramedNodes : CallGetScrollableParents(element)

SpecOverlap == InitOverlap /\ [][NextOverlap]_vars

(***************************************************************************)
(* Properties of getScrollableParents.                                     *)
(***************************************************************************)
CalledParents == ret.fn = "getScrollableParents"

\* the members of a chain that satisfy hasScroll, in the order of the chain
ScrollableOf(chain) == SelectSeq(chain, hasScroll)

Occurrences(seq, n) == Cardinality({i \in 1..Len(seq) : seq[i] = n})

\* C1: for an element in an iframe whose iframe element is found, the result is
\* the scrollable members of the element's own chain followed by the scrollable
\* members of the iframe element's chain in the host document
C1_HostChainAppended ==
    (CalledParents /\ isElementInIframe(ret.el) /\ getIframeByElement(ret.el) # NoNode) =>
        ret.value = ScrollableOf(getParents(ret.el)) \o
                    ScrollableOf(getParents(getIframeByElement(ret.el)))

HeapAfter(i) == IF i = Len(log) THEN heap ELSE log[i + 1].before

\* calls i and i + 1 are first.(p) and second.(p) on the same vector
InverseCalls(i, first, second) ==
    /\ i + 1 <= Len(log)
    /\ log[i].op = first /\ log[i + 1].op = second
    /\ log[i + 1].this = log[i].this /\ log[i + 1].arg = log[i].arg

Restored(i) == HeapAfter(i + 1)[log[i].this].fields = log[i].before[log[i].this].fields

\* a result the arithmetic stores without rounding
Exact(n) == RoundNumber(n) = n

\* the x and y the i-th call computes, before rounding
Sum(i, sign) ==
    LET h == log[i].before
    IN  <<h[log[i].this].fields.x + sign * h[log[i].arg].fields.x,
          h[log[i].this].fields.y + sign * h[log[i].arg].fields.y>>

\* C8 as stated: v.add(p) followed by v.sub(p), and v.sub(p) followed by
\* v.add(p), leave v.x and v.y as they were, for every operand p
C8_InverseLawAsStated ==
    \A i \in 1..Len(log) :
        (InverseCalls(i, "add", "sub") \/ InverseCalls(i, "sub", "add")) => Restored(i)

\* C8 amended: for an operand p that is another object than v, and when the
\* intermediate x and y are stored without rounding, v.add(p) followed by
\* v.sub(p), and v.sub(p) followed by v.add(p), leave v.x and v.y as they were
C8_InverseLaw ==
    \A i \in 1..Len(log) :
        /\ (/\ InverseCalls(i, "add", "sub") /\ log[i].arg # log[i].this
            /\ Exact(Sum(i, 1)[1]) /\ Exact(Sum(i, 1)[2])) => Restored(i)
        /\ (/\ InverseCalls(i, "sub", "add") /\ log[i].arg # log[i].this
            /\ Exact(Sum(i, -1)[1]) /\ Exact(Sum(i, -1)[2])) => Restored(i)

C8_Witness ==
    /\ InverseCalls(1, "add", "sub") /\ log[1].arg # log[1].this
    /\ Exact(Sum(1, 1)[1]) /\ Exact(Sum(1, 1)[2])
    /\ log[1].before[log[1].arg].fields.x > 0 /\ log[1].before[log[1].arg].fields.y > 0
    /\ log[1].before[log[1].this].fields.x > 0
    /\ Restored(1)

CreateCall == Len(log) = 1 /\ log[1].op = "create"

CreateArg == log[1].before[log[1].arg].fields

Created == heap[log[1].result].fields

\* C9: create of {x: a, y: b}, of {left: a, top: b} and of {right: a, bottom: b}
\* yields (x, y) = (a, b): the fields are renamed and nothing is translated
C9_ShapeInvariance ==
    CreateCall =>
        /\ DOMAIN CreateArg = {"x", "y"} =>
              Created = [x |-> CreateArg.x, y |-> CreateArg.y]
        /\ DOMAIN CreateArg = {"left", "top"} =>
              Created = [x |-> CreateArg.left, y |-> CreateArg.top]
        /\ DOMAIN CreateArg = {"right", "bottom"} =>
              Created = [x |-> CreateArg.right, y |-> CreateArg.bottom]

C9_Witness ==
    /\ CreateCall /\ DOMAIN CreateArg = {"right", "bottom"}
    /\ CreateArg.right = 1 /\ CreateArg.bottom = 2
    /\ Created = [x |-> 1, y |-> 2]

\* C10: the shape is detected by field presence in the order left-top,
\* right-bottom, x-y: 'left' wins over 'right' and 'x', 'right' wins over 'x'
C10_DetectionOrder ==
    CreateCall =>
        IF "left" \in DOMAIN CreateArg
        THEN Created = [x |-> CreateArg.left, y |-> CreateArg.top]
        ELSE IF "right" \in DOMAIN CreateArg
        THEN Created = [x |-> CreateArg.right, y |-> CreateArg.bottom]
        ELSE Created = [x |-> CreateArg.x, y |-> CreateArg.y]

C10_Witness ==
    /\ CreateCall /\ DOMAIN CreateArg = {"left", "top", "right", "bottom"}
    /\ CreateArg.left # CreateArg.right /\ CreateArg.top # CreateArg.bottom
    /\ Created = [x |-> CreateArg.left, y |-> CreateArg.top]

\* the i-th call is this.add(p) (sign 1) or this.sub(p) (sign -1)
Combinator(i, sign) == log[i].op = (IF sign = 1 THEN "add" ELSE "sub")

\* the fields the i-th call leaves in its receiver when it adds sign * p to
\* the receiver's own x and y, as JavaScript numbers
Updated(i, sign) ==
    [x |-> RoundNumber(Sum(i, sign)[1]), y |-> RoundNumber(Sum(i, sign)[2])]

\* the i-th call returned its receiver, allocated nothing, stored the sum (the
\* difference) in the receiver and left every other object as it was
InPlace(i, sign) ==
    /\ log[i].result = log[i].this
    /\ Len(HeapAfter(i)) = Len(log[i].before)
    /\ HeapAfter(i)[log[i].this].cls = "AxisValues"
    /\ HeapAfter(i)[log[i].this].fields = Updated(i, sign)
    /\ \A o \in DOMAIN log[i].before :
          o # log[i].this => HeapAfter(i)[o] = log[i].before[o]

\* calls i and i + 1 are the chain v.add(p).sub(q): the second call's receiver
\* is what the first call returned
Chained(i) ==
    /\ i + 1 <= Len(log)
    /\ log[i].op = "add" /\ log[i + 1].op = "sub"
    /\ log[i + 1].this = log[i].result

\* C11: add(p) and sub(p) update the receiver in place and return the receiver
\* itself, never a new vector: the receiver's x and y are increased (decreased
\* for sub) by p.x and p.y, and the chain v.add(p).sub(q) applies both updates
\* to the one instance v
C11_InPlaceCombinators ==
    \A i \in 1..Len(log) :
        /\ Combinator(i, 1) => InPlace(i, 1)
        /\ Combinator(i, -1) => InPlace(i, -1)
        /\ Chained(i) =>
              /\ log[i + 1].this = log[i].this
              /\ HeapAfter(i + 1)[log[i].this].fields =
                    [x |-> RoundNumber(HeapAfter(i)[log[i].this].fields.x
                                        - HeapAfter(i)[log[i + 1].arg].fields.x),
                     y |-> RoundNumber(HeapAfter(i)[log[i].this].fields.y
                                        - HeapAfter(i)[log[i + 1].arg].fields.y)]

C11_Witness ==
    /\ Chained(1) /\ log[1].this = 1 /\ log[1].arg = 2 /\ log[2].arg = 2
    /\ log[1].before[1].fields = [x |-> 1, y |-> 2]
    /\ log[1].before[2].fields = [x |-> 1, y |-> 0]
    /\ HeapAfter(1)[1].fields = [x |-> 2, y |-> 2]
    /\ heap[1].fields = [x |-> 1, y |-> 2]
    /\ Len(heap) = 2

(***************************************************************************)
(* Properties of hasScroll on the body.                                    *)
(***************************************************************************)
\* C20: hasScroll of a body is false whenever neither its overflow-x nor its
\* overflow-y permits scrolling, however much its scroll height exceeds the
\* root's scrollHeight, on every browser flag combination; the answer follows
\* the body-scroll rule alone, which does not read the isIE flag
C20_BodyNeedsScrollableOverflow ==
    Called(Body) =>
        /\ (~Permits(dom[Body].overflowX) /\ ~Permits(dom[Body].overflowY)) => ~ret.value
        /\ ret.value = BodyRule

C20_Witness ==
    /\ Called(Body) /\ browser.isIE /\ ~ret.value
    /\ dom[Body].overflowX = "visible" /\ dom[Body].overflowY = "visible"
    /\ dom[Body].scrollHeight = MaxExtent /\ dom[Html].scrollHeight = 0

(***************************************************************************)
(* Properties of hasScroll and getScrollableParents on degenerate layouts. *)
(***************************************************************************)
\* C18: for a document element without a body child that shows no overflow by
\* the direct comparison of scroll and client extents, hasScroll answers false;
\* for an element of a framed document whose iframe element is not found,
\* getScrollableParents answers the scrollable members of the element's own
\* chain; both calls complete with an answer
C18_DegenerateLayoutsAnswered ==
    /\ (/\ Called(Html) /\ firstBodyOf(Html) = NoNode
        /\ ~OverflowsY(Html) /\ ~OverflowsX(Html)) => ret.value = FALSE
    /\ (/\ CalledParents /\ isElementInIframe(ret.el)
        /\ getIframeByElement(ret.el) = NoNode) =>
           ret.value = ScrollableOf(getParents(ret.el))

C18_Witness ==
    /\ Called(Html) /\ firstBodyOf(Html) = NoNode
    /\ dom[Html].overflowX = "scroll" /\ dom[Html].overflowY = "auto"
    /\ dom[Html].scrollHeight = MaxExtent /\ dom[Html].clientHeight = MaxExtent
    /\ ~OverflowsX(Html) /\ ret.value = FALSE

(***************************************************************************)
(* Properties of getScrollableParents when the two chains share elements.  *)
(***************************************************************************)
InChain(chain, n) == \E i \in 1..Len(chain) : chain[i] = n

\* C19: a scrollable element that is on the element's own ancestor chain and
\* on the iframe element's ancestor chain is in the result twice
C19_SharedAncestorTwice ==
    (CalledParents /\ isElementInIframe(ret.el) /\ getIframeByElement(ret.el) # NoNode) =>
        \A n \in DOMAIN dom :
            (/\ hasScroll(n)
             /\ InChain(getParents(ret.el), n)
             /\ InChain(getParents(getIframeByElement(ret.el)), n)) =>
                Occurrences(ret.value, n) = 2

(***************************************************************************)
(* The configuration object of the tests of mergeOptions                   *)
(* (src/test/functional/fixtures/api/es-next/global-hooks/test.js): the     *)
(* class itself is not part of the sources given; init and mergeOptions    *)
(* are modelled from what the tests set up and expect.                      *)
(***************************************************************************)
\* void 0
Undefined == "undefined"

\* the values a configuration file gives, and the values handed to mergeOptions
FileValues  == {"screenshot-path"}
InputValues == {"modified-path"}

\* the options of the tests: two plain ones and the nested 'screenshots'
PlainOptionNames == <<"hostname", "port1">>
ScreenshotOptionNames == <<"path", "pathPattern", "takeOnFails">>

Range(seq) == {seq[i] : i \in 1..Len(seq)}

\* the name under which a nested option is listed as overridden
Dotted(name) ==
    CASE name = "path"        -> "screenshots.path"
      [] name = "pathPattern" -> "screenshots.pathPattern"
      [] name = "takeOnFails" -> "screenshots.takeOnFails"

\* the objects with some of the given keys
Objects(names, values) == UNION {[keys -> values] : keys \in SUBSET names}

\* object[key]: undefined for a key the object does not have
Get(object, key) == IF key \in DOMAIN object THEN object[key] ELSE Undefined

\* new TestCafeConfiguration() next to a configuration file
NewConfiguration(file) ==
    [phase |-> "created", file |-> file,
     options |-> [plain |-> <<>>, screenshots |-> <<>>],
     overridden |-> <<>>, merged |-> <<>>]

\* setting an option that also takes an undefined value
setOptionValue_KeepUndefined(c, group, key, listed, value) ==
    [c EXCEPT !.options[group] = (key :> value) @@ @,
              !.overridden = IF key \in DOMAIN c.options[group] THEN Append(@, listed) ELSE @]

\* one entry of the merged object: an undefined value is ignored; a defined
\* value is stored, and the option is listed as overridden when it had a value
setOptionValue(c, group, key, listed, value) ==
    IF value = Undefined THEN c
    ELSE [c EXCEPT !.options[group] = (key :> value) @@ @,
                   !.overridden = IF key \in DOMAIN c.options[group]
                                  THEN Append(@, listed) ELSE @]

\* the entries of the 'screenshots' object of the merged object, in key order
RECURSIVE mergeScreenshots(_, _, _)
mergeScreenshots(c, o, i) ==
    IF i > Len(ScreenshotOptionNames) THEN c
    ELSE LET key == ScreenshotOptionNames[i]
         IN  IF key \notin DOMAIN o THEN mergeScreenshots(c, o, i + 1)
             ELSE mergeScreenshots(setOptionValue(c, "screenshots", key, Dotted(key), o[key]),
                                   o, i + 1)

\* the plain entries of the merged object, in key order
RECURSIVE mergePlain(_, _, _)
mergePlain(c, o, i) ==
    IF i > Len(PlainOptionNames) THEN c
    ELSE LET key == PlainOptionNames[i]
         IN  IF key \notin DOMAIN o THEN mergePlain(c, o, i + 1)
             ELSE mergePlain(setOptionValue(c, "plain", key, key, o[key]), o, i + 1)

\* configuration.mergeOptions(o)
mergeOptions(c, o) == mergeScreenshots(mergePlain(c, o.plain, 1), o.screenshots, 1)

\* configuration.getOption(name), and the entries of getOption('screenshots')
getOption(c, name) == Get(c.options.plain, name)
getScreenshotOption(c, name) == Get(c.options.screenshots, name)

\* await configuration.init(): the options of the file
ConfigurationInit ==
    /\ config.phase = "created"
    /\ config' = [config EXCEPT !.phase = "initialised",
                                !.options = [plain |-> config.file.plain,
                                             screenshots |-> config.file.screenshots]]
    /\ UNCHANGED <<browser, dom, frames, ret, heap, log, automation, page>>

MergeOptions(o) ==
    /\ config.phase = "initialised"
    /\ config' = [mergeOptions(config, o) EXCEPT !.phase = "merged", !.merged = o]
    /\ UNCHANGED <<browser, dom, frames, ret, heap, log, automation, page>>

\* the configuration files and the objects handed to mergeOptions
ConfigurationFiles ==
    [plain : Objects(Range(PlainOptionNames), FileValues),
     screenshots : Objects(Range(ScreenshotOptionNames), FileValues)]

MergedObjects ==
    [plain : Objects(Range(PlainOptionNames), InputValues \cup {Undefined}),
     screenshots : Objects(Range(ScreenshotOptionNames), InputValues \cup {Undefined})]

InitConfig ==
    /\ NoDom
    /\ heap = <<>> /\ log = <<>>
    /\ automation = NoAutomation /\ page = NoPage
    /\ \E file \in ConfigurationFiles : config = NewConfiguration(file)

NextConfig ==
    \/ ConfigurationInit
    \/ \E o \in MergedObjects : MergeOptions(o)

SpecConfig == InitConfig /\ [][NextConfig]_vars

(***************************************************************************)
(* Properties of mergeOptions.                                             *)
(***************************************************************************)
Merged == config.phase = "merged"

\* the value an option has after the merge of the value given for it
MergedValue(fileValue, given) == IF given # Undefined THEN given ELSE fileValue

\* the option had a value in the file and a defined value was merged over it
Replaced(fileObject, mergedObject, key) ==
    Get(fileObject, key) # Undefined /\ Get(mergedObject, key) # Undefined

\* C17: after init() loaded the file, mergeOptions(o) sets every option and
\* every screenshots sub-option that o defines to o's value and leaves every
\* option that is undefined in o or absent from o at its file value; the
\* overridden list names exactly the options that had a file value and were
\* replaced, nested ones by their dotted name
C17_MergeOverridesDefined ==
    Merged =>
        /\ \A key \in Range(PlainOptionNames) :
              getOption(config, key) =
                 MergedValue(Get(config.file.plain, key), Get(config.merged.plain, key))
        /\ \A key \in Range(ScreenshotOptionNames) :
              getScreenshotOption(config, key) =
                 MergedValue(Get(config.file.screenshots, key),
                             Get(config.merged.screenshots, key))
        /\ Range(config.overridden) =
              {key \in Range(PlainOptionNames) :
                  Replaced(config.file.plain, config.merged.plain, key)} \cup
              {Dotted(key) : key \in {k \in Range(ScreenshotOptionNames) :
                  Replaced(config.file.screenshots, config.merged.screenshots, k)}}
        /\ \A i \in 1..Len(config.overridden), k \in 1..Len(config.overridden) :
              config.overridden[i] = config.overridden[k] => i = k

\* the test '`mergeOptions` merges config values'
C17_Witness ==
    /\ Merged
    /\ config.file.screenshots = [path |-> "screenshot-path", pathPattern |-> "screenshot-path"]
    /\ config.merged.screenshots =
          [path |-> "modified-path", pathPattern |-> Undefined, takeOnFails |-> "modified-path"]
    /\ config.options.screenshots =
          [path |-> "modified-path", pathPattern |-> "screenshot-path",
           takeOnFails |-> "modified-path"]
    /\ config.overridden = <<"screenshots.path">>

(***************************************************************************)
(* The Automation lifecycle (src/src/shared/actions/types.d.ts declares     *)
(* run(strictElementCheck) and TARGET_ELEMENT_FOUND_EVENT; the classes      *)
(* that implement it are not part of the sources given).  The state        *)
(* machine follows sections 4.3, 5 and 7 of the specification; the chain   *)
(* of scroll containers is getScrollableParents of the target.             *)
(* Geometry is vertical: a scroll container shows the rows                 *)
(* scrollTop .. scrollTop + clientHeight - 1 of its content.               *)
(***************************************************************************)
\* the document: html, body, an outer container, a container and the target
OuterContainer == <<0, 2>>
Container      == <<0, 3>>
TargetElement  == <<0, 4>>

Containers == {OuterContainer, Container}

\* a container that scrolls (overflow: auto, content higher than the box) and
\* one that does not
ContainerLayouts ==
    { Node("div", "auto", "auto", <<ContentHeight, ViewHeight>>, <<ViewHeight, ViewHeight>>, 0),
      Node("div", "visible", "visible", <<ViewHeight, ViewHeight>>, <<ViewHeight, ViewHeight>>, 0) }

ErrorKinds == {"TargetNotFound", "TargetNotVisible", "TargetDetached", "CommandArgumentInvalid"}

TerminalStates == {"Completed", "Failed"}

\* the name of the event a handler may declare
TARGET_ELEMENT_FOUND_EVENT == "targetElementFound"

\* handler.create(cmd, elements): an Automation that has not run
NewAutomation(declaresEvent, cmdValid) ==
    [state |-> "Created", strict |-> FALSE, declaresEvent |-> declaresEvent,
     cmdValid |-> cmdValid, error |-> "none",
     resolved |-> FALSE, observed |-> "none", atExecution |-> "none",
     published |-> <<>>, dispatched |-> 0, next |-> 0, adjusted |-> <<>>]

\* the greatest scroll offset of a node
MaxScrollTop(el) == dom[el].scrollHeight - dom[el].clientHeight

\* the row of the content of chain[i] at which the target point lies, as the
\* scroll offsets of the inner containers stand now
RECURSIVE PointIn(_, _)
PointIn(chain, i) ==
    IF i = 1 THEN page.point
    ELSE page.boxTop[chain[i - 1]] + PointIn(chain, i - 1) - page.scrollTop[chain[i - 1]]

\* the row y is inside the visible rows of el at scroll offset top
IsVisibleAt(el, y, top) == top <= y /\ y <= top + dom[el].clientHeight - 1

\* the target point lies outside the visible area of some ancestor of the chain
NeedsScroll(chain) ==
    \E i \in 1..Len(chain) : ~IsVisibleAt(chain[i], PointIn(chain, i), page.scrollTop[chain[i]])

\* a scroll that always brings the point to the top edge
scrollIntoView_AlignTop(el, y, top) == Min(y, MaxScrollTop(el))

\* the scroll offset of el after the minimum scroll that brings row y into
\* view: to the top edge from above, to the bottom edge from below
scrollIntoView(el, y, top) ==
    IF y < top THEN y
    ELSE IF y > top + dom[el].clientHeight - 1 THEN y - dom[el].clientHeight + 1
    ELSE top

\* a failure that starts the resolution over
Fail_Retry(a, kind) == [a EXCEPT !.state = "TargetResolving", !.error = kind, !.resolved = FALSE]

\* a transition to Failed carries an error kind
Fail(a, kind) == [a EXCEPT !.state = "Failed", !.error = kind]

\* an automation that publishes nothing
publishTargetFound_Never(a) == a

\* emit(TARGET_ELEMENT_FOUND_EVENT), when the handler declares the event
publishTargetFound(a) ==
    IF a.declaresEvent
    THEN [a EXCEPT !.published =
             Append(@, [name |-> TARGET_ELEMENT_FOUND_EVENT, during |-> a.state])]
    ELSE a

\* automation.run(strictElementCheck)
Run(strictElementCheck) ==
    /\ automation.state = "Created"
    /\ automation' =
          IF ~automation.cmdValid
          THEN Fail([automation EXCEPT !.strict = strictElementCheck], "CommandArgumentInvalid")
          ELSE [automation EXCEPT !.strict = strictElementCheck, !.state = "TargetResolving"]
    /\ page' = [page EXCEPT !.scrollTopAtRun = page.scrollTop]
    /\ UNCHANGED <<browser, dom, frames, ret, heap, log, config>>

\* target resolution: under strict checking a missing or invisible target fails
\* the run at once; otherwise the run waits for the target to be present, and
\* publishes the event the handler declares when it is
ResolveTarget ==
    /\ automation.state = "TargetResolving" /\ ~automation.resolved
    /\ automation.strict \/ page.target # "missing"
    /\ LET seen == [automation EXCEPT !.resolved = TRUE, !.observed = page.target]
           found == publishTargetFound(seen)
       IN  automation' =
              IF page.target = "missing" THEN Fail(seen, "TargetNotFound")
              ELSE IF automation.strict /\ page.target = "invisible"
              THEN Fail(found, "TargetNotVisible")
              ELSE found
    /\ UNCHANGED <<browser, dom, frames, ret, heap, log, config, page>>

\* a dispatch that does not look at the target again
Dispatch_Unchecked(a) ==
    [a EXCEPT !.atExecution = page.target, !.state = "Executing", !.dispatched = @ + 1]

\* the check made on the way into Executing, and the dispatch
Dispatch(a) ==
    IF a.strict /\ page.target = "detached"
    THEN Fail([a EXCEPT !.atExecution = page.target], "TargetDetached")
    ELSE [a EXCEPT !.atExecution = page.target, !.state = "Executing",
                   !.dispatched = @ + 1]

\* after resolution: into ScrollAdjusting when some ancestor of the chain hides
\* the point, else into Executing
AfterResolution ==
    /\ automation.state = "TargetResolving" /\ automation.resolved
    /\ automation' =
          IF NeedsScroll(getScrollableParents(TargetElement))
          THEN [automation EXCEPT !.state = "ScrollAdjusting", !.next = 1]
          ELSE Dispatch(automation)
    /\ UNCHANGED <<browser, dom, frames, ret, heap, log, config, page>>

\* one step of the scroll-adjustment phase: the next ancestor of the chain is
\* scrolled by what the point needs as the offsets stand now
AdjustScroll ==
    LET chain == getScrollableParents(TargetElement)
        el    == chain[automation.next]
        y     == PointIn(chain, automation.next)
        to    == scrollIntoView(el, y, page.scrollTop[el])
    IN  /\ automation.state = "ScrollAdjusting" /\ automation.next <= Len(chain)
        /\ page' = [page EXCEPT !.scrollTop[el] = to]
        /\ automation' =
              [automation EXCEPT
                  !.next = @ + 1,
                  !.adjusted = IF to # page.scrollTop[el]
                               THEN Append(@, [el |-> el, y |-> y,
                                               from |-> page.scrollTop[el], to |-> to])
                               ELSE @]
        /\ UNCHANGED <<browser, dom, frames, ret, heap, log, config>>

\* no further adjustment is needed: into Executing
FinishAdjusting ==
    /\ automation.state = "ScrollAdjusting"
    /\ automation.next > Len(getScrollableParents(TargetElement))
    /\ automation' = Dispatch(automation)
    /\ UNCHANGED <<browser, dom, frames, ret, heap, log, config, page>>

\* the page acknowledges the dispatch
Complete ==
    /\ automation.state = "Executing"
    /\ automation' = [automation EXCEPT !.state = "Completed"]
    /\ UNCHANGED <<browser, dom, frames, ret, heap, log, config, page>>

\* the page, while the run is suspended: a target that was missing appears
TargetAppears ==
    /\ automation.state = "TargetResolving" /\ ~automation.resolved
    /\ page.target = "missing"
    /\ page' = [page EXCEPT !.target = "attached"]
    /\ UNCHANGED <<browser, dom, frames, ret, heap, log, config, automation>>

\* the page, between resolution and execution: the target is removed
TargetDetaches ==
    /\ automation.state \in {"TargetResolving", "ScrollAdjusting"} /\ automation.resolved
    /\ page.target \in {"attached", "invisible"}
    /\ page' = [page EXCEPT !.target = "detached"]
    /\ UNCHANGED <<browser, dom, frames, ret, heap, log, config, automation>>

InitLifecycle ==
    /\ browser = [isIE |-> FALSE, isChrome |-> FALSE, isFirefox |-> FALSE]
    /\ frames = TopFrame
    /\ ret = NoCall /\ heap = <<>> /\ log = <<>> /\ config = NoConfig
    /\ \E layout \in [Containers -> ContainerLayouts] :
          /\ dom = [n \in {0} \X (0..4) |->
                       IF n = Html THEN PlainNode("html")
                       ELSE IF n = Body THEN PlainNode("body")
                       ELSE IF n \in Containers THEN layout[n]
                       ELSE PlainNode("div")]
          /\ \E target \in {"attached", "invisible", "missing"},
                point \in 0..ContentHeight - 1,
                boxTop \in 0..ContentHeight - ViewHeight,
                inner \in 0..layout[Container].scrollHeight - layout[Container].clientHeight,
                outer \in 0..layout[OuterContainer].scrollHeight
                              - layout[OuterContainer].clientHeight :
                /\ point < layout[IF layout[Container].scrollHeight > ViewHeight
                                  THEN Container ELSE OuterContainer].scrollHeight
                /\ boxTop <= layout[OuterContainer].scrollHeight - ViewHeight
                /\ page = [target |-> target, point |-> point,
                           boxTop |-> (Container :> boxTop) @@ (OuterContainer :> 0),
                           scrollTop |-> (Container :> inner) @@ (OuterContainer :> outer),
                           scrollTopAtRun |-> (Container :> inner) @@ (OuterContainer :> outer)]
    /\ \E declaresEvent \in BOOLEAN, cmdValid \in BOOLEAN :
          automation = NewAutomation(declaresEvent, cmdValid)

NextLifecycle ==
    \/ \E strictElementCheck \in BOOLEAN : Run(strictElementCheck)
    \/ ResolveTarget
    \/ AfterResolution
    \/ AdjustScroll
    \/ FinishAdjusting
    \/ Complete
    \/ TargetAppears
    \/ TargetDetaches

SpecLifecycle == InitLifecycle /\ [][NextLifecycle]_vars

(***************************************************************************)
(* Properties of the Automation lifecycle.                                 *)
(***************************************************************************)
FailedWith(kind) == automation.state = "Failed" /\ automation.error = kind

\* C12: under run(true), a target found missing or invisible at resolution, or
\* found detached on the way into execution, ends the run in Failed with
\* TargetNotFound, TargetNotVisible or TargetDetached; a failed run has never
\* entered Executing and has resolved its target once; a run whose target is
\* detached is neither Executing nor Completed
C12_StrictCheckFailsFast ==
    /\ automation.state = "Failed" =>
          /\ automation.error \in ErrorKinds
          /\ automation.dispatched = 0 /\ automation.atExecution \in {"none", "detached"}
          /\ Len(automation.published) <= 1
    /\ (automation.state # "none" /\ automation.strict) =>
          /\ automation.observed = "missing" => FailedWith("TargetNotFound")
          /\ automation.observed = "invisible" => FailedWith("TargetNotVisible")
          /\ automation.atExecution = "detached" => FailedWith("TargetDetached")
          /\ page.target = "detached" => automation.state \notin {"Executing", "Completed"}
          /\ automation.state \in {"Executing", "Completed"} =>
                automation.observed = "attached" /\ automation.atExecution = "attached"

C12_Witness ==
    /\ automation.strict /\ FailedWith("TargetDetached")
    /\ automation.observed = "attached" /\ page.target = "detached"
    /\ Len(automation.adjusted) > 0 /\ automation.dispatched = 0

\* the scrollable ancestors of the target, nearest first
TrueChain == ScrollableOf(getParents(TargetElement))

\* the row of chain[i] at which the point lies, given the scroll offsets
RECURSIVE RowIn(_, _, _)
RowIn(chain, i, offsets) ==
    IF i = 1 THEN page.point
    ELSE page.boxTop[chain[i - 1]] + RowIn(chain, i - 1, offsets) - offsets[chain[i - 1]]

\* C13: the ancestors are adjusted in the order of the chain, innermost first;
\* each adjustment starts from the offset the ancestor had and is computed from
\* the row the point has once the inner ancestors stand adjusted, and when an
\* ancestor is adjusted the point is already in view in every inner one
C13_InnermostFirst ==
    automation.state # "none" =>
        \A k \in 1..Len(automation.adjusted) :
            LET e == automation.adjusted[k]
            IN  /\ \A j \in 1..k - 1 : automation.adjusted[j].el[2] > e.el[2]
                /\ \E i \in 1..Len(TrueChain) :
                      /\ TrueChain[i] = e.el
                      /\ e.from = page.scrollTopAtRun[e.el]
                      /\ e.y = RowIn(TrueChain, i, page.scrollTop)
                      /\ \A j \in 1..i - 1 :
                            IsVisibleAt(TrueChain[j], RowIn(TrueChain, j, page.scrollTop),
                                        page.scrollTop[TrueChain[j]])

C13_Witness ==
    /\ automation.state = "Completed" /\ Len(automation.adjusted) = 2
    /\ automation.adjusted[1].el = Container /\ automation.adjusted[2].el = OuterContainer
    /\ automation.adjusted[2].y # RowIn(TrueChain, 2, page.scrollTopAtRun)

Distance(a, b) == IF a < b THEN b - a ELSE a - b

\* what the point lacks to be in view in el at offset top: the rows below the
\* last visible row, or (negative) the rows above the first
Deficit(el, y, top) ==
    IF y < top THEN y - top
    ELSE IF y > top + dom[el].clientHeight - 1 THEN y - (top + dom[el].clientHeight - 1)
    ELSE 0

\* C14: an ancestor is adjusted only when the point is out of its view, by
\* exactly the deficit, which is the least scroll that brings the point into
\* view; an ancestor that is not adjusted keeps its offset, so when scrolling
\* the container suffices its ancestors stay where they were
C14_MinimalScroll ==
    automation.state # "none" =>
        /\ \A k \in 1..Len(automation.adjusted) :
              LET e == automation.adjusted[k]
              IN  /\ ~IsVisibleAt(e.el, e.y, e.from)
                  /\ e.to - e.from = Deficit(e.el, e.y, e.from)
                  /\ IsVisibleAt(e.el, e.y, e.to)
                  /\ \A t \in 0..MaxScrollTop(e.el) :
                        IsVisibleAt(e.el, e.y, t) =>
                            Distance(t, e.from) >= Distance(e.to, e.from)
                  /\ page.scrollTop[e.el] = e.to
        /\ \A el \in Containers :
              (\A k \in 1..Len(automation.adjusted) : automation.adjusted[k].el # el) =>
                  page.scrollTop[el] = page.scrollTopAtRun[el]
        /\ automation.state \in {"Executing", "Completed"} =>
              (automation.observed = "none" \/ ~NeedsScroll(TrueChain))

C14_Witness ==
    /\ automation.state = "Completed" /\ Len(automation.adjusted) = 1
    /\ hasScroll(Container) /\ hasScroll(OuterContainer)
    /\ automation.adjusted[1].el = Container
    /\ automation.adjusted[1].to - automation.adjusted[1].from = ContentHeight - ViewHeight
    /\ page.scrollTop[OuterContainer] = page.scrollTopAtRun[OuterContainer]
    /\ page.scrollTop[OuterContainer] > 0

NonTerminalStates == {"Created", "TargetResolving", "ScrollAdjusting", "Executing"}

LifecycleEdges ==
    { <<"Created", "TargetResolving">>, <<"TargetResolving", "ScrollAdjusting">>,
      <<"TargetResolving", "Executing">>, <<"ScrollAdjusting", "Executing">>,
      <<"Executing", "Completed">> } \cup
    { <<state, "Failed">> : state \in NonTerminalStates }

\* C15: the state moves only along Created -> TargetResolving ->
\* (ScrollAdjusting)? -> Executing -> Completed or from a non-terminal state to
\* Failed; nothing of the automation changes once it is Completed or Failed;
\* the interaction is dispatched at most once, on the step into Executing
C15_LifecycleOrder ==
    [][/\ automation'.state # automation.state =>
             <<automation.state, automation'.state>> \in LifecycleEdges
       /\ automation.state \in TerminalStates => automation' = automation
       /\ automation'.dispatched =
             automation.dispatched +
                (IF automation.state # "Executing" /\ automation'.state = "Executing"
                 THEN 1 ELSE 0)
       /\ automation'.dispatched <= 1]_vars

C15_Witness ==
    /\ automation.state = "Completed" /\ automation.dispatched = 1
    /\ Len(automation.adjusted) > 0 /\ page.target = "detached"

\* C16: when the handler declares TARGET_ELEMENT_FOUND_EVENT, a Completed run
\* has published the event, once, during target resolution, when it observed
\* the target present; a run that failed with TargetNotFound published nothing
C16_TargetFoundPublished ==
    (automation.state # "none" /\ automation.declaresEvent) =>
        /\ automation.state = "Completed" =>
              /\ automation.published =
                    <<[name |-> TARGET_ELEMENT_FOUND_EVENT, during |-> "TargetResolving"]>>
              /\ automation.observed \in {"attached", "invisible"}
        /\ automation.published # <<>> <=> automation.observed \in {"attached", "invisible"}
        /\ FailedWith("TargetNotFound") => automation.published = <<>>

C16_Witness ==
    /\ automation.declaresEvent /\ automation.state = "Completed"
    /\ Len(automation.published) = 1 /\ automation.strict

(***************************************************************************)
(* Properties of hasScroll on the document element.                        *)
(***************************************************************************)
\* what the extents of the document element and its body decide, without the
\* overflow keywords of the document element
RootExtentsRule ==
    \/ OverflowsY(Html) \/ OverflowsX(Html)
    \/ /\ Body \in DOMAIN dom
       /\ ~BodyRule
       /\ \/ dom[Body].scrollHeight > Min(dom[Html].clientHeight, dom[Body].clientHeight)
          \/ dom[Body].scrollWidth > Min(dom[Html].clientWidth, dom[Body].clientWidth)

\* C21: for the document element, unless both overflow keywords are 'hidden',
\* the answer of hasScroll is decided without its overflow keywords; with
\* overflow-x 'hidden', overflow-y 'visible' and scrollWidth > clientWidth the
\* document element is reported scrollable
C21_RootIgnoresOverflowKeywords ==
    (/\ Called(Html)
     /\ ~(dom[Html].overflowX = "hidden" /\ dom[Html].overflowY = "hidden")) =>
        /\ ret.value = RootExtentsRule
        /\ (/\ dom[Html].overflowX = "hidden" /\ dom[Html].overflowY = "visible"
            /\ OverflowsX(Html)) => ret.value = TRUE

C21_Witness ==
    /\ Called(Html)
    /\ dom[Html].overflowX = "hidden" /\ dom[Html].overflowY = "visible"
    /\ OverflowsX(Html) /\ ~OverflowsY(Html)
    /\ ret.value = TRUE

(***************************************************************************)
(* Frame properties of AxisValues.                                         *)
(***************************************************************************)
\* every object the i-th call found, except the listed ones, is as it was
Untouched(i, except) ==
    \A o \in DOMAIN log[i].before : o \notin except => HeapAfter(i)[o] = log[i].before[o]

\* C22: add(p) and sub(p) change only the receiver, so an operand that is
\* another object keeps its x and y; create(a) changes no object, returns an
\* instance that did not exist before, a different one on every call, and a
\* later add or sub on the created vector leaves the object it was created
\* from as that call found it
C22_FrameEffects ==
    \A i \in 1..Len(log) :
        /\ log[i].op \in {"add", "sub"} =>
              /\ Untouched(i, {log[i].this})
              /\ Len(HeapAfter(i)) = Len(log[i].before)
        /\ log[i].op = "create" =>
              /\ Untouched(i, {})
              /\ log[i].result \notin DOMAIN log[i].before
              /\ log[i].result \in DOMAIN HeapAfter(i)
              /\ \A k \in 1..Len(log) :
                    (k # i /\ log[k].op = "create") => log[k].result # log[i].result
              /\ \A k \in i + 1..Len(log) :
                    (log[k].op \in {"add", "sub"} /\ log[k].this = log[i].result) =>
                        HeapAfter(k)[log[i].arg] = log[k].before[log[i].arg]

C22_Witness ==
    /\ Len(log) = 2
    /\ log[1].op = "create" /\ log[1].arg = 2 /\ log[1].result = 3
    /\ log[2].op = "sub" /\ log[2].this = 3 /\ log[2].arg = 2
    /\ log[1].before[2].fields = [x |-> 1, y |-> 2]
    /\ heap[2].fields = [x |-> 1, y |-> 2]
    /\ heap[3].fields = [x |-> 0, y |-> 0]

====
